---------------------------- MODULE Spec2Model ----------------------------
(***************************************************************************)
(* The webhook notifier of pocket-id:                                      *)
(*   backend/internal/service/webhook_service.go   (WebhookService)        *)
(*   frontend/.../forms/app-config-webhook-form.svelte (the settings form) *)
(*                                                                         *)
(* Text that the code scans character by character (the event kind, the    *)
(* event filter, the destination URL, the title) is a sequence of          *)
(* one-character strings, so that Split, TrimSpace, Contains, ToUpper and  *)
(* ToLower are computed as the Go library computes them.  Text that the    *)
(* code only compares with "" or concatenates (user name, IP address,      *)
(* country, city, user agent, attribute keys and values) is a TLA+ string. *)
(***************************************************************************)
EXTENDS Integers, Sequences, FiniteSets, TLC

(***************************************************************************)
(* Bounds of the model.                                                    *)
(***************************************************************************)
\* Configuration updates that may interleave with the calls of one run.
MaxUpdates == 1
\* Entries of an audit event's extra-attributes mapping (auditLog.Data).
MaxData == 2
\* Save callbacks, and test requests, of the settings form under way at once.
MaxInFlight == 2

(***************************************************************************)
(* Text literals.                                                          *)
(***************************************************************************)
SIGN_IN == <<"S", "I", "G", "N", "_", "I", "N">>
TOKEN_SIGN_IN == <<"T", "O", "K", "E", "N", "_">> \o SIGN_IN
sign_in == <<"s", "i", "g", "n", "_", "i", "n">>
EmptyText == <<>>

hooksSlackCom ==
    <<"h", "o", "o", "k", "s", ".", "s", "l", "a", "c", "k", ".", "c", "o", "m">>
https == <<"h", "t", "t", "p", "s", ":", "/", "/">>
DiscordURL == https \o <<"d", "i", "s", "c", "o", "r", "d", ".", "c", "o", "m", "/", "w">>
SlackURL == https \o hooksSlackCom \o <<"/", "s">>
\* One character short of the Slack host: not a Slack URL.
NearSlackURL == https \o SubSeq(hooksSlackCom, 1, 14) \o <<"/", "m">>
\* The Slack host name in the path of another host: the substring test takes it
\* for a Slack URL.
SlackInPathURL == https \o <<"x", ".", "i", "o", "/">> \o hooksSlackCom
\* url.Parse rejects it: "missing protocol scheme".
InvalidURL == <<":", "b", "a", "d">>

WhiteSpace == {" ", "\t", "\n", "\r"}

UpperLetters ==
    <<"A", "B", "C", "D", "E", "F", "G", "H", "I", "J", "K", "L", "M",
      "N", "O", "P", "Q", "R", "S", "T", "U", "V", "W", "X", "Y", "Z">>
LowerLetters ==
    <<"a", "b", "c", "d", "e", "f", "g", "h", "i", "j", "k", "l", "m",
      "n", "o", "p", "q", "r", "s", "t", "u", "v", "w", "x", "y", "z">>

(***************************************************************************)
(* The Go string functions the service calls.                              *)
(***************************************************************************)
\* strings.ToUpper / strings.ToLower on one (ASCII) character.
ToUpper(c) ==
    IF \E i \in 1..26 : LowerLetters[i] = c
    THEN UpperLetters[CHOOSE i \in 1..26 : LowerLetters[i] = c]
    ELSE c

ToLower(c) ==
    IF \E i \in 1..26 : UpperLetters[i] = c
    THEN LowerLetters[CHOOSE i \in 1..26 : UpperLetters[i] = c]
    ELSE c

\* strings.Split(s, sep) for a one-character separator: always at least one
\* part, strings.Split("", ",") = [""].
RECURSIVE Split(_, _)
Split(s, sep) ==
    IF \A i \in 1..Len(s) : s[i] # sep
    THEN <<s>>
    ELSE LET i == CHOOSE k \in 1..Len(s) :
                      s[k] = sep /\ \A j \in 1..(k - 1) : s[j] # sep
         IN  <<SubSeq(s, 1, i - 1)>> \o Split(SubSeq(s, i + 1, Len(s)), sep)

\* strings.Join(words, sep).
RECURSIVE Join(_, _)
Join(words, sep) ==
    IF Len(words) = 0 THEN <<>>
    ELSE IF Len(words) = 1 THEN words[1]
    ELSE words[1] \o sep \o Join(Tail(words), sep)

\* strings.TrimSpace(s).
RECURSIVE TrimLeft(_)
TrimLeft(s) ==
    IF Len(s) > 0 /\ s[1] \in WhiteSpace THEN TrimLeft(Tail(s)) ELSE s

RECURSIVE TrimRight(_)
TrimRight(s) ==
    IF Len(s) > 0 /\ s[Len(s)] \in WhiteSpace
    THEN TrimRight(SubSeq(s, 1, Len(s) - 1))
    ELSE s

TrimSpace(s) == TrimRight(TrimLeft(s))

\* strings.Contains(s, substr).
Contains(s, substr) ==
    \E i \in 0..(Len(s) - Len(substr)) : SubSeq(s, i + 1, i + Len(substr)) = substr

(***************************************************************************)
(* Formatter.                                                              *)
(***************************************************************************)
\* formatEventTitle: "SIGN_IN" -> "Sign In".
formatEventTitle(event) ==
    LET words == Split(event, "_")
        Cap(w) == IF Len(w) > 0
                  THEN <<ToUpper(w[1])>> \o [i \in 1..(Len(w) - 1) |-> ToLower(w[i + 1])]
                  ELSE w
    IN  Join([i \in 1..Len(words) |-> Cap(words[i])], <<" ">>)

formatLocation_swapped(country, city) ==
    IF country = "" /\ city = "" THEN ""
    ELSE IF city = "" THEN country
    ELSE IF country = "" THEN city
    ELSE country \o ", " \o city

formatLocation(country, city) ==
    IF country = "" /\ city = "" THEN ""
    ELSE IF city = "" THEN country
    ELSE IF country = "" THEN city
    ELSE city \o ", " \o country

valueOrDash(v) == IF v = "" THEN "-" ELSE v

(***************************************************************************)
(* State.                                                                  *)
(***************************************************************************)
VARIABLES
    cfg,            \* the configuration GetDbConfig returns: WebhookUrl, WebhookEvents
    cfgVersion,     \* how many times the configuration has been replaced
    pc,             \* where the call in progress stands
    op,             \* "SendEvent", "SendTestWebhook" or "none"
    auditLog,       \* SendEvent's argument
    callCfg,        \* the call's local cfg (line 53 / 104)
    webhookURL,     \* the call's local webhookURL (line 54 / 105)
    filterRead,     \* whether isEventAllowed has read the configuration
    filterCfg,      \* isEventAllowed's local cfg (line 165)
    eventsFilter,   \* isEventAllowed's local eventsFilter (line 166)
    payload,        \* the payload handed to sendPayload
    httpReq,        \* the request handed to httpClient.Do
    posts,          \* HTTP POSTs the call has issued
    logs,           \* slog.ErrorContext entries the call has written
    httpResp,       \* what httpClient.Do returned to the call
    result,         \* the call's outcome: returned or not, and its error
    \* the settings form
    inputs,         \* $inputs[key].value for webhookUrl and webhookEvents
    appConfig,      \* the appConfig prop: the saved configuration
    dialogOpen,     \* the confirm dialog of onTestWebhook is shown
    saves,          \* the onSubmit calls waiting at `await callback(data)`
    isSendingTestWebhook,
    testRequests,   \* the test requests under way
    lastTest        \* the last test request issued, and the form as it was then

backendVars ==
    <<cfg, cfgVersion, pc, op, auditLog, callCfg, webhookURL, filterRead,
      filterCfg, eventsFilter, payload, httpReq, posts, logs, httpResp, result>>

formVars ==
    <<inputs, appConfig, dialogOpen, saves, isSendingTestWebhook, testRequests, lastTest>>

vars == <<backendVars, formVars>>

(***************************************************************************)
(* Values.                                                                 *)
(***************************************************************************)
\* Color: 5814783 (lines 75 and 114).
Color == 5814783

\* error values: nil, and the errors of SendTestWebhook and sendPayload.
NilError == [msg |-> "nil", code |-> 0]
ErrNotConfigured == [msg |-> "webhook URL is not configured", code |-> 0]
ErrCreateRequest == [msg |-> "failed to create webhook request", code |-> 0]
ErrSendRequest == [msg |-> "failed to send webhook request", code |-> 0]
ErrStatus(code) == [msg |-> "webhook returned non-success status", code |-> code]

NoAuditLog ==
    [Event |-> EmptyText, Username |-> "", IpAddress |-> <<>>, Country |-> "",
     City |-> "", UserAgent |-> "", Data |-> <<>>, CreatedAt |-> ""]

\* webhookPayload{}: the zero value.
NoPayload == [Content |-> "", Embeds |-> <<>>, Attachments |-> <<>>]

\* No configuration read yet.
NoConfig == [WebhookUrl |-> EmptyText, WebhookEvents |-> EmptyText]

NoResponse == [received |-> FALSE, failed |-> FALSE, code |-> 0]

NoRequest == [method |-> "", url |-> EmptyText, contentType |-> "", body |-> <<>>]

\* The response statuses the destination answers with.
Statuses == {199, 200, 299, 300, 404, 500}

URLs == {EmptyText, DiscordURL, SlackURL, NearSlackURL, SlackInPathURL, InvalidURL}

Filters ==
    { EmptyText,
      TOKEN_SIGN_IN,
      TOKEN_SIGN_IN \o <<",", " ">> \o SIGN_IN,
      <<" ">> \o sign_in \o <<"\t", ",", " ", ",">> }

Events == {SIGN_IN, TOKEN_SIGN_IN, sign_in, EmptyText}

\* The attribute keys of auditLog.Data; one of them is a fixed field's name.
DataKeys == {"User", "reason", "client", "Device"}
DataValues == {"", "v"}

\* map[string]string values with at most MaxData entries.
DataMaps ==
    UNION { [ks -> DataValues] : ks \in {s \in SUBSET DataKeys : Cardinality(s) <= MaxData} }

\* The orders in which `range` may visit the keys of a map.
Orders(keys) ==
    { o \in [1..Cardinality(keys) -> keys] :
        \A i, j \in 1..Cardinality(keys) : i # j => o[i] # o[j] }


\* The audit events SendEvent is called with under Spec: every event kind with
\* all optional parts absent, and a sign-in with all of them present.
AuditLogs ==
    { [NoAuditLog EXCEPT !.Event = e, !.CreatedAt = "2024-05-01T10:00:00Z"] : e \in Events }
    \cup
    { [Event |-> SIGN_IN, Username |-> "alice", IpAddress |-> <<"10.0.0.1">>,
       Country |-> "US", City |-> "Paris", UserAgent |-> "curl",
       Data |-> [k \in {"reason"} |-> ""], CreatedAt |-> "2024-05-01T10:00:00Z"] }

\* The audit events the payload builder is applied to under SpecPayload.
RichAuditLogs ==
    [Event : {SIGN_IN, EmptyText},
     Username : {"", "alice"},
     IpAddress : {<<>>, <<"">>, <<"10.0.0.1">>},
     Country : {"", "US"},
     City : {"", "Paris"},
     UserAgent : {"", "curl"},
     Data : DataMaps,
     CreatedAt : {"2024-05-01T10:00:00Z"}]

(***************************************************************************)
(* Event filter.                                                           *)
(***************************************************************************)
\* The loop of lines 171-175 from part i on.
RECURSIVE allowedFrom(_, _, _)
allowedFrom(parts, i, event) ==
    IF i > Len(parts) THEN FALSE
    ELSE IF TrimSpace(parts[i]) = event THEN TRUE
    ELSE allowedFrom(parts, i + 1, event)

\* A filter that compares the untrimmed entries.
RECURSIVE allowedFrom_untrimmed(_, _, _)
allowedFrom_untrimmed(parts, i, event) ==
    IF i > Len(parts) THEN FALSE
    ELSE IF parts[i] = event THEN TRUE
    ELSE allowedFrom_untrimmed(parts, i + 1, event)

isEventAllowed_untrimmed(event) ==
    IF cfg.WebhookEvents = EmptyText THEN TRUE
    ELSE allowedFrom_untrimmed(Split(cfg.WebhookEvents, ","), 1, event)

\* isEventAllowed reads the configuration itself (line 165).
isEventAllowed(event) ==
    IF cfg.WebhookEvents = EmptyText THEN TRUE
    ELSE allowedFrom(Split(cfg.WebhookEvents, ","), 1, event)

(***************************************************************************)
(* Payload builder.                                                        *)
(***************************************************************************)
Field(name, value, inline) == [Name |-> name, Value |-> value, Inline |-> inline]

\* The four fixed fields of lines 76-81.
fixedFields(al) ==
    LET ipAddress == IF al.IpAddress # <<>> THEN al.IpAddress[1] ELSE ""
        location == formatLocation(al.Country, al.City)
    IN  << Field("User", valueOrDash(al.Username), TRUE),
           Field("IP Address", valueOrDash(ipAddress), TRUE),
           Field("Location", valueOrDash(location), TRUE),
           Field("Device", valueOrDash(al.UserAgent), TRUE) >>

\* The loop of lines 88-94, visiting the keys of auditLog.Data in `order`.
extraFields_skipFixedNames(al, order) ==
    LET keep == SelectSeq(order, LAMBDA k : k \notin {"User", "IP Address", "Location", "Device"})
    IN  [i \in 1..Len(keep) |-> Field(keep[i], valueOrDash(al.Data[keep[i]]), TRUE)]

extraFields(al, order) ==
    [i \in 1..Len(order) |-> Field(order[i], valueOrDash(al.Data[order[i]]), TRUE)]

\* Lines 64-94 of SendEvent.
buildEventPayload(al, order) ==
    [Content |-> "",
     Embeds |-> << [Title |-> formatEventTitle(al.Event),
                    Color |-> Color,
                    Fields |-> fixedFields(al) \o extraFields(al, order),
                    Timestamp |-> al.CreatedAt] >>,
     Attachments |-> <<>>]

\* Lines 110-122 of SendTestWebhook.
buildTestPayload ==
    [Content |-> "",
     Embeds |-> << [Title |-> <<"T", "e", "s", "t", " ", "W", "e", "b", "h", "o", "o", "k">>,
                    Color |-> Color,
                    Fields |-> << Field("Status", "Connection successful", FALSE),
                                  Field("Source", "Pocket ID", TRUE) >>,
                    Timestamp |-> "now"] >>,
     Attachments |-> <<>>]

(***************************************************************************)
(* Destination adapter and sendPayload.                                    *)
(***************************************************************************)
adaptPayload_keepEmbeds(url, p) ==
    IF Contains(url, hooksSlackCom) THEN [p EXCEPT !.Attachments = p.Embeds] ELSE p

\* Lines 128-135.
adaptPayload(url, p) ==
    IF Contains(url, hooksSlackCom)
    THEN [p EXCEPT !.Attachments = p.Embeds, !.Embeds = <<>>]
    ELSE p

\* json.Marshal of a webhookPayload: each of the three keys is tagged omitempty
\* and is left out when its value is "" or a nil or empty slice.  Marshalling
\* strings, integers, booleans and slices of structs cannot fail, so the error
\* return of lines 138-140 is never taken.
jsonMarshal(p) ==
    LET keys == (IF p.Content # "" THEN {"content"} ELSE {})
                \cup (IF Len(p.Embeds) > 0 THEN {"embeds"} ELSE {})
                \cup (IF Len(p.Attachments) > 0 THEN {"attachments"} ELSE {})
    IN  [k \in keys |-> IF k = "content" THEN <<p.Content>>
                        ELSE IF k = "embeds" THEN p.Embeds
                        ELSE p.Attachments]

\* url.Parse inside http.NewRequestWithContext: a URL whose first character is
\* ':' has no protocol scheme and is rejected.
urlParseFails(url) == Len(url) > 0 /\ url[1] = ":"

\* Lines 127-149 up to the moment httpClient.Do hands the request to the
\* transport.  ctxDone: the context is already cancelled or past its deadline,
\* and Do returns its error without sending.
sendPayloadStart(url, p, ctxDone) ==
    LET body == jsonMarshal(adaptPayload(url, p))
        req == [method |-> "POST", url |-> url,
                contentType |-> "application/json", body |-> body]
    IN  IF urlParseFails(url)
        THEN [err |-> ErrCreateRequest, req |-> NoRequest, sent |-> FALSE]
        ELSE IF ctxDone
        THEN [err |-> ErrSendRequest, req |-> req, sent |-> FALSE]
        ELSE [err |-> NilError, req |-> req, sent |-> TRUE]

statusIsError_offByOne(code) == code < 200 \/ code > 300

\* Line 155.
statusIsError(code) == code < 200 \/ code >= 300

\* Lines 149-159: what sendPayload returns once Do has returned.
sendPayloadFinish(transportFailed, code) ==
    IF transportFailed THEN ErrSendRequest
    ELSE IF statusIsError(code) THEN ErrStatus(code)
    ELSE NilError

\* Line 98.
logEntry(err, event) ==
    [msg |-> "Failed to send webhook", error |-> err, event |-> event]

(***************************************************************************)
(* Dispatcher: the calls.  One call is in progress at a time; calls share  *)
(* nothing but the configuration, which may be replaced between any two    *)
(* steps of a call.                                                        *)
(***************************************************************************)
Returned(err) == [returned |-> TRUE, err |-> err]
Pending == [returned |-> FALSE, err |-> NilError]

\* A SendEvent that does not test the URL.
SendEvent_noUrlTest(al) ==
    /\ pc \in {"idle", "returned"}
    /\ op' = "SendEvent"
    /\ auditLog' = al
    /\ callCfg' = cfg
    /\ webhookURL' = cfg.WebhookUrl
    /\ filterRead' = FALSE
    /\ filterCfg' = NoConfig
    /\ eventsFilter' = EmptyText
    /\ payload' = NoPayload
    /\ httpReq' = NoRequest
    /\ posts' = 0
    /\ logs' = <<>>
    /\ httpResp' = NoResponse
    /\ pc' = "SendEvent_filter"
    /\ result' = Pending
    /\ UNCHANGED <<cfg, cfgVersion>>
    /\ UNCHANGED formVars

\* SendEvent, lines 52-57: the call is entered, the configuration is read and
\* the call returns when the URL is empty.
SendEvent(al) ==
    /\ pc \in {"idle", "returned"}
    /\ op' = "SendEvent"
    /\ auditLog' = al
    /\ callCfg' = cfg
    /\ webhookURL' = cfg.WebhookUrl
    /\ filterRead' = FALSE
    /\ filterCfg' = NoConfig
    /\ eventsFilter' = EmptyText
    /\ payload' = NoPayload
    /\ httpReq' = NoRequest
    /\ posts' = 0
    /\ logs' = <<>>
    /\ httpResp' = NoResponse
    /\ IF cfg.WebhookUrl = EmptyText
       THEN pc' = "returned" /\ result' = Returned(NilError)
       ELSE pc' = "SendEvent_filter" /\ result' = Pending
    /\ UNCHANGED <<cfg, cfgVersion>>
    /\ UNCHANGED formVars

\* SendEvent, lines 60-99, with sendPayload up to the request being sent:
\* isEventAllowed reads the configuration again, the payload is built and
\* handed to sendPayload; a failure before the request leaves is logged.
SendEventDeliver ==
    /\ pc = "SendEvent_filter"
    /\ filterRead' = TRUE
    /\ filterCfg' = cfg
    /\ eventsFilter' = cfg.WebhookEvents
    /\ IF ~isEventAllowed(auditLog.Event)
       THEN /\ pc' = "returned"
            /\ result' = Returned(NilError)
            /\ UNCHANGED <<payload, httpReq, posts, logs>>
       ELSE \E order \in Orders(DOMAIN auditLog.Data), ctxDone \in BOOLEAN :
                LET p == buildEventPayload(auditLog, order)
                    r == sendPayloadStart(webhookURL, p, ctxDone)
                IN  /\ payload' = p
                    /\ httpReq' = r.req
                    /\ IF r.sent
                       THEN /\ pc' = "http"
                            /\ posts' = posts + 1
                            /\ UNCHANGED <<logs, result>>
                       ELSE /\ pc' = "returned"
                            /\ logs' = Append(logs, logEntry(r.err, auditLog.Event))
                            /\ result' = Returned(NilError)
                            /\ UNCHANGED posts
    /\ UNCHANGED <<cfg, cfgVersion, op, auditLog, callCfg, webhookURL, httpResp>>
    /\ UNCHANGED formVars

\* A SendTestWebhook that sends to an empty URL.
SendTestWebhook_noUrlTest ==
    /\ pc \in {"idle", "returned"}
    /\ op' = "SendTestWebhook"
    /\ auditLog' = NoAuditLog
    /\ callCfg' = cfg
    /\ webhookURL' = cfg.WebhookUrl
    /\ filterRead' = FALSE
    /\ filterCfg' = NoConfig
    /\ eventsFilter' = EmptyText
    /\ logs' = <<>>
    /\ httpResp' = NoResponse
    /\ \E ctxDone \in BOOLEAN :
           LET r == sendPayloadStart(cfg.WebhookUrl, buildTestPayload, ctxDone)
           IN  /\ payload' = buildTestPayload
               /\ httpReq' = r.req
               /\ IF r.sent
                  THEN pc' = "http" /\ posts' = 1 /\ result' = Pending
                  ELSE pc' = "returned" /\ posts' = 0 /\ result' = Returned(r.err)
    /\ UNCHANGED <<cfg, cfgVersion>>
    /\ UNCHANGED formVars

\* SendTestWebhook, lines 103-124, with sendPayload up to the request being sent.
SendTestWebhook ==
    /\ pc \in {"idle", "returned"}
    /\ op' = "SendTestWebhook"
    /\ auditLog' = NoAuditLog
    /\ callCfg' = cfg
    /\ webhookURL' = cfg.WebhookUrl
    /\ filterRead' = FALSE
    /\ filterCfg' = NoConfig
    /\ eventsFilter' = EmptyText
    /\ logs' = <<>>
    /\ httpResp' = NoResponse
    /\ IF cfg.WebhookUrl = EmptyText
       THEN /\ pc' = "returned"
            /\ result' = Returned(ErrNotConfigured)
            /\ payload' = NoPayload
            /\ httpReq' = NoRequest
            /\ posts' = 0
       ELSE \E ctxDone \in BOOLEAN :
                LET r == sendPayloadStart(cfg.WebhookUrl, buildTestPayload, ctxDone)
                IN  /\ payload' = buildTestPayload
                    /\ httpReq' = r.req
                    /\ IF r.sent
                       THEN pc' = "http" /\ posts' = 1 /\ result' = Pending
                       ELSE pc' = "returned" /\ posts' = 0 /\ result' = Returned(r.err)
    /\ UNCHANGED <<cfg, cfgVersion>>
    /\ UNCHANGED formVars

\* An exchange that is tried again after a failure.
HttpRespond_retry(transportFailed, code) ==
    /\ pc = "http"
    /\ LET err == sendPayloadFinish(transportFailed, code)
       IN  IF err # NilError /\ posts < 2
           THEN /\ posts' = posts + 1
                /\ UNCHANGED <<pc, logs, result>>
           ELSE /\ pc' = "returned"
                /\ UNCHANGED posts
                /\ IF op = "SendEvent"
                   THEN /\ result' = Returned(NilError)
                        /\ logs' = IF err # NilError
                                   THEN Append(logs, logEntry(err, auditLog.Event))
                                   ELSE logs
                   ELSE /\ result' = Returned(err)
                        /\ UNCHANGED logs
    /\ httpResp' = [received |-> TRUE, failed |-> transportFailed,
                     code |-> IF transportFailed THEN 0 ELSE code]
    /\ UNCHANGED <<cfg, cfgVersion, op, auditLog, callCfg, webhookURL,
                   filterRead, filterCfg, eventsFilter, payload, httpReq>>
    /\ UNCHANGED formVars

\* httpClient.Do returns (lines 149-159) and the caller finishes: SendEvent
\* logs an error (lines 97-99), SendTestWebhook returns it (line 124).
\* transportFailed: Do returned an error (the connection failed, or the
\* context was cancelled while the exchange was under way).
HttpRespond(transportFailed, code) ==
    /\ pc = "http"
    /\ pc' = "returned"
    /\ LET err == sendPayloadFinish(transportFailed, code)
       IN  IF op = "SendEvent"
           THEN /\ result' = Returned(NilError)
                /\ logs' = IF err # NilError
                           THEN Append(logs, logEntry(err, auditLog.Event))
                           ELSE logs
           ELSE /\ result' = Returned(err)
                /\ UNCHANGED logs
    /\ httpResp' = [received |-> TRUE, failed |-> transportFailed,
                     code |-> IF transportFailed THEN 0 ELSE code]
    /\ UNCHANGED <<cfg, cfgVersion, op, auditLog, callCfg, webhookURL,
                   filterRead, filterCfg, eventsFilter, payload, httpReq, posts>>
    /\ UNCHANGED formVars

\* The configuration surface replaces the configuration; GetDbConfig returns
\* the new one from then on.
UpdateConfig(url, events) ==
    /\ cfgVersion < MaxUpdates
    /\ cfg' = [WebhookUrl |-> url, WebhookEvents |-> events]
    /\ cfgVersion' = cfgVersion + 1
    /\ UNCHANGED <<pc, op, auditLog, callCfg, webhookURL, filterRead,
                   filterCfg, eventsFilter, payload, httpReq, posts, logs,
                   httpResp, result>>
    /\ UNCHANGED formVars

(***************************************************************************)
(* Payload builder on its own: buildEventPayload applied to every audit    *)
(* event of RichAuditLogs, the keys of Data visited in every order.        *)
(***************************************************************************)
BuildEventPayload ==
    /\ pc = "build"
    /\ pc' = "built"
    /\ \E order \in Orders(DOMAIN auditLog.Data) :
           payload' = buildEventPayload(auditLog, order)
    /\ UNCHANGED <<cfg, cfgVersion, op, auditLog, callCfg, webhookURL, filterRead,
                   filterCfg, eventsFilter, httpReq, posts, logs, httpResp, result>>
    /\ UNCHANGED formVars

(***************************************************************************)
(* The settings form (app-config-webhook-form.svelte).                     *)
(***************************************************************************)
NotAURL == <<"n", "o">>

\* Values typed into the URL input.
FormUrls == {EmptyText, DiscordURL, NotAURL}

\* Selections of the multi-select (a subset of auditLogEventsList, lines 35-45).
FormSelections == {<<>>, <<SIGN_IN, TOKEN_SIGN_IN>>}

\* z.url(): the text has a scheme, letters followed by ':'.
isURL(u) ==
    \E i \in 2..Len(u) :
        /\ u[i] = ":"
        /\ \A j \in 1..(i - 1) : \E l \in 1..26 : LowerLetters[l] = u[j]

\* formSchema, lines 28-31.
formSchemaAccepts(values) == values.webhookUrl = EmptyText \/ isURL(values.webhookUrl)

\* form.validate() (line 72): the inputs' values when the schema accepts them,
\* else null; <<>> stands for null and <<data>> for data.
validate == IF formSchemaAccepts(inputs) THEN <<inputs>> ELSE <<>>

\* Line 88.
hasChanges == \E key \in DOMAIN inputs : inputs[key] # appConfig[key]

\* sendTestWebhook up to its await (lines 109-112): the flag is set and the
\* request leaves.  `saved` is the appConfig the form holds at that moment.
sendTestWebhook(saved, viaDialog) ==
    /\ testRequests < MaxInFlight
    /\ isSendingTestWebhook' = TRUE
    /\ testRequests' = testRequests + 1
    /\ lastTest' = [issued |-> TRUE, viaDialog |-> viaDialog,
                    unsaved |-> \E key \in DOMAIN inputs : inputs[key] # saved[key]]

\* The administrator types into the URL input (bind:input, line 123).  The
\* confirm dialog is modal: the form cannot be edited while it is shown.
EditUrl(u) ==
    /\ ~dialogOpen
    /\ inputs' = [inputs EXCEPT !.webhookUrl = u]
    /\ UNCHANGED <<appConfig, dialogOpen, saves, isSendingTestWebhook, testRequests, lastTest>>
    /\ UNCHANGED backendVars

\* onSelectEvents, lines 66-69.
onSelectEvents(selected) ==
    /\ ~dialogOpen
    /\ inputs' = [inputs EXCEPT !.webhookEvents = Join(selected, <<",">>)]
    /\ UNCHANGED <<appConfig, dialogOpen, saves, isSendingTestWebhook, testRequests, lastTest>>
    /\ UNCHANGED backendVars

\* onSubmit up to `await callback(data)` (lines 71-74), from the form's submit.
onSubmit ==
    /\ ~dialogOpen
    /\ Len(saves) < MaxInFlight
    /\ validate # <<>>
    /\ saves' = Append(saves, [data |-> validate[1], thenTest |-> FALSE])
    /\ UNCHANGED <<inputs, appConfig, dialogOpen, isSendingTestWebhook, testRequests, lastTest>>
    /\ UNCHANGED backendVars

\* onTestWebhook, lines 86-107.
onTestWebhook ==
    /\ ~dialogOpen
    /\ IF hasChanges
       THEN /\ dialogOpen' = TRUE
            /\ UNCHANGED <<isSendingTestWebhook, testRequests, lastTest>>
       ELSE /\ sendTestWebhook(appConfig, FALSE)
            /\ UNCHANGED dialogOpen
    /\ UNCHANGED <<inputs, appConfig, saves>>
    /\ UNCHANGED backendVars

\* The administrator confirms the dialog: it closes and its action (lines
\* 96-101) runs onSubmit up to `await callback(data)`; when validation fails,
\* saved is false and nothing more happens.
ConfirmDialog ==
    /\ dialogOpen
    /\ dialogOpen' = FALSE
    /\ IF validate # <<>>
       THEN /\ Len(saves) < MaxInFlight
            /\ saves' = Append(saves, [data |-> validate[1], thenTest |-> TRUE])
       ELSE UNCHANGED saves
    /\ UNCHANGED <<inputs, appConfig, isSendingTestWebhook, testRequests, lastTest>>
    /\ UNCHANGED backendVars

\* The administrator dismisses the dialog.
CancelDialog ==
    /\ dialogOpen
    /\ dialogOpen' = FALSE
    /\ UNCHANGED <<inputs, appConfig, saves, isSendingTestWebhook, testRequests, lastTest>>
    /\ UNCHANGED backendVars

RemoveAt(seq, i) == SubSeq(seq, 1, i - 1) \o SubSeq(seq, i + 1, Len(seq))

\* The save callback of the i-th waiting onSubmit completes: lines 76-83, and,
\* when onSubmit was called by the dialog's action, lines 98-100.
SaveResolved(i) ==
    /\ i \in 1..Len(saves)
    /\ saves' = RemoveAt(saves, i)
    /\ appConfig' = saves[i].data
    /\ IF saves[i].thenTest
       THEN sendTestWebhook(saves[i].data, TRUE)
       ELSE UNCHANGED <<isSendingTestWebhook, testRequests, lastTest>>
    /\ UNCHANGED <<inputs, dialogOpen>>
    /\ UNCHANGED backendVars

\* The save callback of the i-th waiting onSubmit throws: onSubmit and the
\* dialog's action end with it.
SaveRejected(i) ==
    /\ i \in 1..Len(saves)
    /\ saves' = RemoveAt(saves, i)
    /\ UNCHANGED <<inputs, appConfig, dialogOpen, isSendingTestWebhook, testRequests, lastTest>>
    /\ UNCHANGED backendVars

\* A test request ends, with success or failure (lines 113-115).
TestRequestSettled ==
    /\ testRequests > 0
    /\ testRequests' = testRequests - 1
    /\ isSendingTestWebhook' = FALSE
    /\ UNCHANGED <<inputs, appConfig, dialogOpen, saves, lastTest>>
    /\ UNCHANGED backendVars

NoTest == [issued |-> FALSE, viaDialog |-> FALSE, unsaved |-> FALSE]

\* The form as it is mounted: the inputs hold the saved configuration.
InitFormWith(saved) ==
    /\ appConfig = saved
    /\ inputs = saved
    /\ dialogOpen = FALSE
    /\ saves = <<>>
    /\ isSendingTestWebhook = FALSE
    /\ testRequests = 0
    /\ lastTest = NoTest

InitFormIdle == InitFormWith([webhookUrl |-> EmptyText, webhookEvents |-> EmptyText])

\* The state of the service after construction, no call made yet.
InitService ==
    /\ cfgVersion = 0
    /\ pc = "idle"
    /\ op = "none"
    /\ auditLog = NoAuditLog
    /\ callCfg = NoConfig
    /\ webhookURL = EmptyText
    /\ filterRead = FALSE
    /\ filterCfg = NoConfig
    /\ eventsFilter = EmptyText
    /\ payload = NoPayload
    /\ httpReq = NoRequest
    /\ posts = 0
    /\ logs = <<>>
    /\ httpResp = NoResponse
    /\ result = Pending

Init ==
    /\ cfg \in [WebhookUrl : URLs, WebhookEvents : Filters]
    /\ InitService
    /\ InitFormIdle

Next ==
    \/ \E al \in AuditLogs : SendEvent(al)
    \/ SendEventDeliver
    \/ SendTestWebhook
    \/ \E transportFailed \in BOOLEAN, code \in Statuses : HttpRespond(transportFailed, code)
    \/ \E url \in URLs, events \in Filters : UpdateConfig(url, events)

Spec == Init /\ [][Next]_vars

InitPayload ==
    /\ cfg = NoConfig
    /\ cfgVersion = 0
    /\ pc = "build"
    /\ op = "none"
    /\ auditLog \in RichAuditLogs
    /\ callCfg = NoConfig
    /\ webhookURL = EmptyText
    /\ filterRead = FALSE
    /\ filterCfg = NoConfig
    /\ eventsFilter = EmptyText
    /\ payload = NoPayload
    /\ httpReq = NoRequest
    /\ posts = 0
    /\ logs = <<>>
    /\ httpResp = NoResponse
    /\ result = Pending
    /\ InitFormIdle

NextPayload == BuildEventPayload

SpecPayload == InitPayload /\ [][NextPayload]_vars

InitForm ==
    /\ cfg = NoConfig
    /\ InitService
    /\ \E saved \in [webhookUrl : {u \in FormUrls : u = EmptyText \/ isURL(u)},
                     webhookEvents : {Join(sel, <<",">>) : sel \in FormSelections}] :
           InitFormWith(saved)

NextForm ==
    \/ \E u \in FormUrls : EditUrl(u)
    \/ \E selected \in FormSelections : onSelectEvents(selected)
    \/ onSubmit
    \/ onTestWebhook
    \/ ConfirmDialog
    \/ CancelDialog
    \/ \E i \in 1..MaxInFlight : SaveResolved(i)
    \/ \E i \in 1..MaxInFlight : SaveRejected(i)
    \/ TestRequestSettled

SpecForm == InitForm /\ [][NextForm]_vars

(***************************************************************************)
(* What the specification states, written without the operators above.     *)
(***************************************************************************)
\* The entries of a comma-separated list: the maximal comma-free stretches.
SpecEntries(f) ==
    { SubSeq(f, i, j) : <<i, j>> \in
        { ij \in (1..(Len(f) + 1)) \X (0..Len(f)) :
            /\ ij[1] <= ij[2] + 1
            /\ (ij[1] = 1 \/ f[ij[1] - 1] = ",")
            /\ (ij[2] = Len(f) \/ f[ij[2] + 1] = ",")
            /\ \A k \in ij[1]..ij[2] : f[k] # "," } }

\* An entry without its surrounding whitespace (a set with one element).
SpecTrimmed(e) ==
    { SubSeq(e, i, j) : <<i, j>> \in
        { ij \in (1..(Len(e) + 1)) \X (0..Len(e)) :
            /\ ij[1] <= ij[2] + 1
            /\ \A k \in 1..(ij[1] - 1) : e[k] \in WhiteSpace
            /\ \A k \in (ij[2] + 1)..Len(e) : e[k] \in WhiteSpace
            /\ (ij[1] <= ij[2] => e[ij[1]] \notin WhiteSpace /\ e[ij[2]] \notin WhiteSpace) } }

SpecAllowed(event, f) ==
    f = EmptyText \/ \E e \in SpecEntries(f) : event \in SpecTrimmed(e)

SpecPlaceholder(v) == IF v = "" THEN "-" ELSE v

SpecLocation(country, city) ==
    CASE country = "" /\ city = "" -> ""
      [] country # "" /\ city = "" -> country
      [] country = "" /\ city # "" -> city
      [] OTHER -> city \o ", " \o country

SuccessStatus(code) == code \in 200..299

\* The error sendPayload is to end with, given what happened to the request.
SpecDeliveryError ==
    IF webhookURL = InvalidURL THEN ErrCreateRequest
    ELSE IF ~httpResp.received \/ httpResp.failed THEN ErrSendRequest
    ELSE IF ~SuccessStatus(httpResp.code)
    THEN [msg |-> "webhook returned non-success status", code |-> httpResp.code]
    ELSE NilError

(***************************************************************************)
(* The claims.                                                             *)
(***************************************************************************)
\* C1: a SendEvent call that finds the destination URL empty, whatever the
\* audit event and the event filter, has returned normally at once, having
\* issued no HTTP request and written no log entry.
C1_EmptyUrlIsNoop ==
    (op = "SendEvent" /\ webhookURL = EmptyText) =>
        /\ pc = "returned"
        /\ result = [returned |-> TRUE, err |-> NilError]
        /\ posts = 0
        /\ httpReq = NoRequest
        /\ logs = <<>>

C1_Witness ==
    /\ op = "SendEvent"
    /\ pc = "returned"
    /\ webhookURL = EmptyText
    /\ auditLog.Event = SIGN_IN
    /\ cfg.WebhookEvents = TOKEN_SIGN_IN
    /\ posts = 0

\* C2: a SendTestWebhook call that finds the destination URL empty has
\* returned the "not configured" error and issued no HTTP request.
C2_TestNotConfigured ==
    (op = "SendTestWebhook" /\ webhookURL = EmptyText) =>
        /\ pc = "returned"
        /\ result = [returned |-> TRUE,
                     err |-> [msg |-> "webhook URL is not configured", code |-> 0]]
        /\ posts = 0
        /\ httpReq = NoRequest

C2_Witness ==
    /\ op = "SendTestWebhook"
    /\ pc = "returned"
    /\ webhookURL = EmptyText
    /\ result.err = ErrNotConfigured

\* C3: with a non-empty URL, SendTestWebhook returns nil exactly when the
\* exchange completed with a status in 200..299; a status outside 200..299 is
\* returned as an error carrying that status, and a request-construction or
\* transport failure (a cancelled context included) as the error of that
\* failure point.
C3_TestResult ==
    (op = "SendTestWebhook" /\ pc = "returned" /\ webhookURL # EmptyText) =>
        /\ result.returned
        /\ (result.err = NilError) <=>
               (httpResp.received /\ ~httpResp.failed /\ SuccessStatus(httpResp.code))
        /\ (httpResp.received /\ ~httpResp.failed /\ ~SuccessStatus(httpResp.code)) =>
               /\ result.err.msg = "webhook returned non-success status"
               /\ result.err.code = httpResp.code
        /\ result.err = SpecDeliveryError
        /\ (webhookURL = InvalidURL) => posts = 0

C3_Witness ==
    /\ op = "SendTestWebhook"
    /\ pc = "returned"
    /\ httpResp.received
    /\ httpResp.code = 500
    /\ result.err.code = 500

\* C4: no call issues more than one HTTP POST, and a SendEvent call returns
\* normally with exactly one log entry, holding the error and the event kind,
\* when its delivery failed, and with none otherwise.
C4_LogOnceNoRetry ==
    /\ posts <= 1
    /\ (op = "SendEvent" /\ pc = "returned") =>
           /\ result = [returned |-> TRUE, err |-> NilError]
           /\ IF payload = NoPayload \/ SpecDeliveryError = NilError
              THEN logs = <<>>
              ELSE logs = << [msg |-> "Failed to send webhook",
                              error |-> SpecDeliveryError,
                              event |-> auditLog.Event] >>

C4_Witness ==
    /\ op = "SendEvent"
    /\ pc = "returned"
    /\ posts = 1
    /\ httpResp.code = 404
    /\ Len(logs) = 1
    /\ logs[1].error.code = 404
    /\ logs[1].event = SIGN_IN

\* C5: with a non-empty URL, SendEvent goes on to deliver (builds the payload
\* and hands it to sendPayload, which posts it or fails before posting)
\* exactly when the event kind is allowed by the filter isEventAllowed read:
\* every kind when the filter is empty, else the kinds equal to a
\* comma-separated entry with its surrounding whitespace removed.
C5_FilterGate ==
    (op = "SendEvent" /\ filterRead) =>
        LET allowed == SpecAllowed(auditLog.Event, eventsFilter)
        IN  /\ (payload # NoPayload) <=> allowed
            /\ (posts = 1 \/ Len(logs) = 1) <=> allowed
            /\ (auditLog.Event = SIGN_IN /\ eventsFilter = EmptyText) => payload # NoPayload
            /\ (auditLog.Event = SIGN_IN
                  /\ eventsFilter = TOKEN_SIGN_IN \o <<",", " ">> \o SIGN_IN) =>
                   payload # NoPayload
            /\ (auditLog.Event = SIGN_IN /\ eventsFilter = TOKEN_SIGN_IN) =>
                   (payload = NoPayload /\ posts = 0)
            /\ (auditLog.Event = sign_in
                  /\ eventsFilter = TOKEN_SIGN_IN \o <<",", " ">> \o SIGN_IN) =>
                   (payload = NoPayload /\ posts = 0)

C5_Witness ==
    /\ op = "SendEvent"
    /\ filterRead
    /\ auditLog.Event = SIGN_IN
    /\ eventsFilter = TOKEN_SIGN_IN \o <<",", " ">> \o SIGN_IN
    /\ posts = 1

\* C6: the body of every request built, by SendEvent or SendTestWebhook, has
\* exactly one of the keys "embeds" and "attachments" and no "content" key:
\* the embeds are under "attachments" when the URL contains "hooks.slack.com"
\* and under "embeds" for any other URL.
C6_OneDestinationKey ==
    (httpReq # NoRequest) =>
        LET keys == DOMAIN httpReq.body
        IN  /\ "content" \notin keys
            /\ Cardinality(keys \cap {"embeds", "attachments"}) = 1
            /\ IF httpReq.url \in {SlackURL, SlackInPathURL}
               THEN /\ keys = {"attachments"}
                    /\ httpReq.body["attachments"] = payload.Embeds
               ELSE /\ keys = {"embeds"}
                    /\ httpReq.body["embeds"] = payload.Embeds

C6_Witness ==
    /\ op = "SendEvent"
    /\ pc = "http"
    /\ httpReq.url = SlackURL
    /\ DOMAIN httpReq.body = {"attachments"}
    /\ Len(httpReq.body["attachments"][1].Fields) = 5

\* C7: the URL a SendEvent call has posted to and the event filter it evaluated
\* come from the same version of the configuration: the configuration read
\* at the start of the call, or the one isEventAllowed read, holds both.
C7_OneSnapshot ==
    (op = "SendEvent" /\ posts = 1) =>
        \E c \in {callCfg, filterCfg} :
            c.WebhookUrl = webhookURL /\ c.WebhookEvents = eventsFilter

\* C8 as amended: the payload starts with the fields User, IP Address,
\* Location, Device, in this order and each inline, with the values
\* placeholder(username), placeholder(IP, empty when absent),
\* placeholder(formatLocation(country, city)) and placeholder(user agent):
\* the Location of an event without country and city is a dash.
C8_FixedFields ==
    (pc = "built") =>
        LET fields == payload.Embeds[1].Fields
            ip == IF auditLog.IpAddress = <<>> THEN "" ELSE auditLog.IpAddress[1]
        IN  /\ Len(payload.Embeds) = 1
            /\ Len(fields) >= 4
            /\ fields[1] = [Name |-> "User", Inline |-> TRUE,
                            Value |-> SpecPlaceholder(auditLog.Username)]
            /\ fields[2] = [Name |-> "IP Address", Inline |-> TRUE,
                            Value |-> SpecPlaceholder(ip)]
            /\ fields[3] = [Name |-> "Location", Inline |-> TRUE,
                            Value |-> SpecPlaceholder(
                                          SpecLocation(auditLog.Country, auditLog.City))]
            /\ fields[4] = [Name |-> "Device", Inline |-> TRUE,
                            Value |-> SpecPlaceholder(auditLog.UserAgent)]

C8_Witness ==
    /\ pc = "built"
    /\ auditLog.Country = "US"
    /\ auditLog.City = "Paris"
    /\ auditLog.IpAddress = <<>>
    /\ payload.Embeds[1].Fields[2].Value = "-"
    /\ payload.Embeds[1].Fields[3].Value = "Paris, US"

\* C8 as stated: the same, with Location = formatLocation(country, city),
\* empty when country and city are both empty.
C8_AsStated ==
    (pc = "built") =>
        LET fields == payload.Embeds[1].Fields
            ip == IF auditLog.IpAddress = <<>> THEN "" ELSE auditLog.IpAddress[1]
        IN  /\ Len(payload.Embeds) = 1
            /\ Len(fields) >= 4
            /\ fields[1] = [Name |-> "User", Inline |-> TRUE,
                            Value |-> SpecPlaceholder(auditLog.Username)]
            /\ fields[2] = [Name |-> "IP Address", Inline |-> TRUE,
                            Value |-> SpecPlaceholder(ip)]
            /\ fields[3] = [Name |-> "Location", Inline |-> TRUE,
                            Value |-> SpecLocation(auditLog.Country, auditLog.City)]
            /\ fields[4] = [Name |-> "Device", Inline |-> TRUE,
                            Value |-> SpecPlaceholder(auditLog.UserAgent)]

\* C9: the payload of an event with n extra attributes has 4 + n fields; after
\* the four fixed ones every attribute is exactly one field, named by its key,
\* inline, holding its value or a dash when the value is empty, also when the
\* key is the name of a fixed field.
C9_ExtraFields ==
    (pc = "built") =>
        LET fields == payload.Embeds[1].Fields
            data == auditLog.Data
        IN  /\ Len(fields) = 4 + Cardinality(DOMAIN data)
            /\ \A k \in DOMAIN data :
                   /\ Cardinality({i \in 5..Len(fields) : fields[i].Name = k}) = 1
                   /\ \A i \in 5..Len(fields) :
                          fields[i].Name = k =>
                              /\ fields[i].Inline = TRUE
                              /\ fields[i].Value = (IF data[k] = "" THEN "-" ELSE data[k])

C9_Witness ==
    /\ pc = "built"
    /\ DOMAIN auditLog.Data = {"User", "reason"}
    /\ auditLog.Data["User"] = "v"
    /\ auditLog.Data["reason"] = ""
    /\ Len(payload.Embeds[1].Fields) = 6
    /\ payload.Embeds[1].Fields[5].Name = "reason"
    /\ payload.Embeds[1].Fields[5].Value = "-"

C10_DirectTestHasNoChanges ==
    (lastTest.issued /\ ~lastTest.viaDialog) => ~lastTest.unsaved

\* A test request under way settles: the HTTP client resolves or rejects it.
SpecFormFair == SpecForm /\ WF_vars(TestRequestSettled)

\* C10, under SpecFormFair: once set, isSendingTestWebhook returns to false.
C10_FlagResets == isSendingTestWebhook ~> ~isSendingTestWebhook

=============================================================================
